---- MODULE Spec2Model ----
(***************************************************************************)
(* The multisig account of x/accounts/defaults/multisig/account.go:        *)
(* its five stores and the handlers Init, Vote and QuerySequence, with     *)
(* the handlers the package registers or presupposes but does not define   *)
(* in account.go (UpdateConfig, the creation of proposals) modelled from   *)
(* the specification.                                                      *)
(*                                                                         *)
(* A handler is modelled in two layers.  XxxHandler is the Go function:    *)
(* it returns the error it returns and the content of the stores as the    *)
(* handler left them in its context.  The action Xxx is one message        *)
(* executed by the host: the stores keep the handler's writes only when    *)
(* the handler returned no error (Committed).                              *)
(***************************************************************************)
EXTENDS Integers, Sequences, FiniteSets, TLC

\* ------------------------------------------------------------- bounds

\* Longest PubKeys / Weights list of a MsgInit.
MaxListLen == 2

\* Largest value of the unsigned integer type of weights and totals: the
\* uint64 of the source scaled down, arithmetic is modulo MaxUint64 + 1.
MaxUint64 == 7

\* Most proposals ever created on the account.
MaxProposals == 1

\* Highest value the sequence counter is advanced to.
MaxSequence == 2

\* ------------------------------------------------------- value domains

DefaultSigningAlgo == "default"

\* Member identities (MsgInit.PubKeys entries, voter bytes).
Identities == {"A", "B"}

\* Address strings a MsgVote.Signer can hold: <<prefix, payload>>.
Signers == {<<"cosmos", id>> : id \in Identities} \cup {<<"xyz", "A">>}

\* Signature payloads a MsgVote can hold: the identity a handler recovers.
SignatureOf(signer) == <<"sig", signer[2]>>

AlgoNames == {DefaultSigningAlgo, "custom"}

ListsOver(S) == UNION {[1..n -> S] : n \in 0..MaxListLen}

ConfigsOver(levels, quorums, periods) ==
    [threshold : levels, quorum : quorums, votingPeriod : periods,
     algo : AlgoNames, revote : BOOLEAN]

\* Inputs of the account's whole life (Spec).
LifeWeights == {1}
LifeConfigs == ConfigsOver({0, 1, 2}, {1, 2}, {1})

\* Inputs of initialization alone (SpecInit): the corner values of the type.
WideWeights == {0, 1, MaxUint64}
WideConfigs == ConfigsOver({0, 1, 2, MaxUint64}, {0, 1, 2, MaxUint64}, {0, 1})

\* ---------------------------------------------------------------- state

VARIABLES
    Members,    \* map identity -> weight
    Sequence,   \* the account's sequence counter
    Config,     \* the configuration item: {} when unset, else {cfg}
    Proposals,  \* map proposal id -> proposal
    Votes,      \* map <<proposal id, voter>> -> vote
    opts,       \* Options.CustomAlgorithms handed to NewAccount (names)
    phase,      \* "new" | "created" | "failed" | "checked"
    last        \* the last call: operation, request, response

vars == <<Members, Sequence, Config, Proposals, Votes, opts, phase, last>>

stores == <<Members, Sequence, Config, Proposals, Votes>>

\* ------------------------------------------------------ store primitives

EmptyMap == [x \in {} |-> 0]

MapHas(m, k) == k \in DOMAIN m

MapSet(m, k, v) == [x \in (DOMAIN m) \cup {k} |-> IF x = k THEN v ELSE m[x]]

\* What the host keeps of a handler's writes: all of them when the handler
\* returned nil, none otherwise.
Committed(err, written, before) == IF err = "OK" THEN written ELSE before

\* address.Codec.StringToBytes on a signer string.
StringToBytes(s) ==
    IF s[1] = "cosmos" THEN [err |-> "OK", bz |-> s[2]]
                       ELSE [err |-> "InvalidAddress", bz |-> "none"]

\* ------------------------------------------------------------ NewAccount

\* The handlers the account holds after NewAccount: the constructor never
\* copies opts.CustomAlgorithms into the customAlgos field.
customAlgos == {}

NewAccount(registries) ==
    /\ Members = EmptyMap
    /\ Sequence = 0
    /\ Config = {}
    /\ Proposals = EmptyMap
    /\ Votes = EmptyMap
    /\ opts \in registries
    /\ phase = "new"
    /\ last = [op |-> "none"]

\* ---------------------------------------------------------- validateConfig

\* validateConfig with the two weight checks in the other order.
validateConfigQuorumFirst(cfg, totalWeight) ==
    IF cfg.threshold = 0 \/ cfg.quorum = 0 \/ cfg.votingPeriod = 0
        THEN "InvalidConfig"
    ELSE IF totalWeight < cfg.quorum THEN "QuorumExceedsWeight"
    ELSE IF totalWeight < cfg.threshold THEN "ThresholdExceedsWeight"
    ELSE "OK"

\* validateConfig without its last check, of the quorum against the weight.
validateConfigNoQuorumCheck(cfg, totalWeight) ==
    IF cfg.threshold = 0 \/ cfg.quorum = 0 \/ cfg.votingPeriod = 0
        THEN "InvalidConfig"
    ELSE IF totalWeight < cfg.threshold THEN "ThresholdExceedsWeight"
    ELSE "OK"

validateConfig(cfg, totalWeight) ==
    IF cfg.threshold = 0 \/ cfg.quorum = 0 \/ cfg.votingPeriod = 0
        THEN "InvalidConfig"
    ELSE IF totalWeight < cfg.threshold THEN "ThresholdExceedsWeight"
    ELSE IF totalWeight < cfg.quorum THEN "QuorumExceedsWeight"
    ELSE "OK"

\* ------------------------------------------------------------------ Init

isValidAlgo(algo) == algo = DefaultSigningAlgo \/ algo \in customAlgos

RECURSIVE SetParticipants(_, _, _, _)
SetParticipants(members, pubKeys, weights, i) ==
    IF i > Len(pubKeys) THEN members
    ELSE SetParticipants(MapSet(members, pubKeys[i], weights[i]),
                         pubKeys, weights, i + 1)

RECURSIVE TotalWeight(_)
TotalWeight(weights) ==
    IF weights = <<>> THEN 0
    ELSE (TotalWeight(Tail(weights)) + Head(weights)) % (MaxUint64 + 1)

\* Init rejecting only a PubKeys list longer than the Weights list.
InitHandlerShortListOnly(pubKeys, weights, cfg) ==
    IF Len(pubKeys) > Len(weights)
        THEN [err |-> "InvalidInput", members |-> Members]
    ELSE IF ~isValidAlgo(cfg.algo)
        THEN [err |-> "UnsupportedAlgorithm", members |-> Members]
    ELSE [err |-> validateConfig(cfg, TotalWeight(weights)),
          members |-> SetParticipants(Members, pubKeys, weights, 1)]

InitHandler(pubKeys, weights, cfg) ==
    IF Len(pubKeys) # Len(weights)
        THEN [err |-> "InvalidInput", members |-> Members]
    ELSE IF ~isValidAlgo(cfg.algo)
        THEN [err |-> "UnsupportedAlgorithm", members |-> Members]
    ELSE [err |-> validateConfig(cfg, TotalWeight(weights)),
          members |-> SetParticipants(Members, pubKeys, weights, 1)]

\* Init whose member writes outlive a failed configuration check.
InitKeepsMembers(pubKeys, weights, cfg) ==
    /\ phase = "new"
    /\ LET resp == InitHandler(pubKeys, weights, cfg) IN
        /\ Members' = resp.members
        /\ phase' = IF resp.err = "OK" THEN "created" ELSE "failed"
        /\ last' = [op |-> "Init",
                    req |-> [pubKeys |-> pubKeys, weights |-> weights,
                             config |-> cfg],
                    err |-> resp.err,
                    staged |-> resp.members]
    /\ UNCHANGED <<Sequence, Config, Proposals, Votes, opts>>

Init(pubKeys, weights, cfg) ==
    /\ phase = "new"
    /\ LET resp == InitHandler(pubKeys, weights, cfg) IN
        /\ Members' = Committed(resp.err, resp.members, Members)
        /\ phase' = IF resp.err = "OK" THEN "created" ELSE "failed"
        /\ last' = [op |-> "Init",
                    req |-> [pubKeys |-> pubKeys, weights |-> weights,
                             config |-> cfg],
                    err |-> resp.err,
                    staged |-> resp.members]
    /\ UNCHANGED <<Sequence, Config, Proposals, Votes, opts>>

\* ------------------------------------------------------------------ Vote

\* SignatureHandler.RecoverPubKey of a registered handler.
RecoverPubKey(signature) ==
    IF signature[1] = "sig" THEN [err |-> "OK", bz |-> signature[2]]
                            ELSE [err |-> "HandlerError", bz |-> "none"]

\* Lines 117-129: the voter's identity under the configured algorithm.  A name
\* without a handler indexes the handler map to a nil interface, and the call
\* on it aborts the handler.
ResolveVoter(cfg, signer, signature) ==
    IF cfg.algo = DefaultSigningAlgo THEN StringToBytes(signer)
    ELSE IF cfg.algo \in customAlgos THEN RecoverPubKey(signature)
    ELSE [err |-> "Panic", bz |-> "none"]

\* The two lookups in the other order.
AdmissionProposalFirst(isMember, hasProposal) ==
    IF ~hasProposal THEN "ProposalNotFound"
    ELSE IF ~isMember THEN "NotAMember"
    ELSE "OK"

\* The membership check alone.
AdmissionNoProposalLookup(isMember, hasProposal) ==
    IF ~isMember THEN "NotAMember" ELSE "OK"

\* The proposal lookup alone.
AdmissionNoMembershipCheck(isMember, hasProposal) ==
    IF ~hasProposal THEN "ProposalNotFound" ELSE "OK"

\* Lines 131-141: the membership check, then the proposal lookup.
Admission(isMember, hasProposal) ==
    IF ~isMember THEN "NotAMember"
    ELSE IF ~hasProposal THEN "ProposalNotFound"
    ELSE "OK"

\* A policy that never refuses a second vote.
RevotePolicyAlwaysOpen(cfg, hasVoted) == "OK"

\* A policy that refuses every second vote.
RevotePolicyAlwaysClosed(cfg, hasVoted) ==
    IF hasVoted THEN "AlreadyVoted" ELSE "OK"

\* Lines 143-150: the revote policy on the stored vote of the voter.  The
\* store's Get answers with the value or with ErrNotFound; another store
\* error (line 148) does not occur.
RevotePolicy(cfg, hasVoted) ==
    IF hasVoted /\ ~cfg.revote THEN "AlreadyVoted" ELSE "OK"

\* The response carries, beside the error, what the handler looked up: the
\* voter it resolved and the stored vote it found ({} when it found none or
\* did not come to look).
VoteHandler(signer, signature, proposalId, vote) ==
    IF Config = {}
        THEN [err |-> "ConfigNotFound", voter |-> "none", prior |-> {},
              votes |-> Votes]
    ELSE
    LET cfg == CHOOSE c \in Config : TRUE
        who == ResolveVoter(cfg, signer, signature)
        key == <<proposalId, who.bz>>
        admitted == Admission(MapHas(Members, who.bz),
                              MapHas(Proposals, proposalId))
        found == IF MapHas(Votes, key) THEN {Votes[key]} ELSE {}
        policy == RevotePolicy(cfg, found # {})
    IN  IF who.err # "OK"
            THEN [err |-> who.err, voter |-> "none", prior |-> {},
                  votes |-> Votes]
        ELSE IF admitted # "OK"
            THEN [err |-> admitted, voter |-> who.bz, prior |-> {},
                  votes |-> Votes]
        ELSE IF policy # "OK"
            THEN [err |-> policy, voter |-> who.bz, prior |-> found,
                  votes |-> Votes]
        ELSE [err |-> "OK", voter |-> who.bz, prior |-> found,
              votes |-> MapSet(Votes, key, vote)]

\* Vote with the write of line 152 moved before the checks of lines 131-150:
\* the vote is stored as soon as the voter is resolved, and the failure that
\* follows is not rolled back.
VoteWritesBeforeChecks(signer, proposalId, vote) ==
    /\ phase = "created"
    /\ LET resp == VoteHandler(signer, SignatureOf(signer), proposalId, vote) IN
        /\ Votes' = IF resp.voter = "none" THEN Votes
                    ELSE MapSet(Votes, <<proposalId, resp.voter>>, vote)
        /\ last' = [op |-> "Vote",
                    req |-> [signer |-> signer, proposalId |-> proposalId,
                             vote |-> vote],
                    err |-> resp.err,
                    voter |-> resp.voter,
                    prior |-> resp.prior]
    /\ UNCHANGED <<Members, Sequence, Config, Proposals, opts, phase>>

Vote(signer, proposalId, vote) ==
    /\ phase = "created"
    /\ LET resp == VoteHandler(signer, SignatureOf(signer), proposalId, vote) IN
        /\ Votes' = Committed(resp.err, resp.votes, Votes)
        /\ last' = [op |-> "Vote",
                    req |-> [signer |-> signer, proposalId |-> proposalId,
                             vote |-> vote],
                    err |-> resp.err,
                    voter |-> resp.voter,
                    prior |-> resp.prior]
    /\ UNCHANGED <<Members, Sequence, Config, Proposals, opts, phase>>

\* --------------------------------------------------------- QuerySequence

\* QuerySequence reading the counter with Next, which advances it, instead of
\* Peek.
QuerySequenceNext ==
    /\ phase = "created"
    /\ last' = [op |-> "QuerySequence", err |-> "OK", sequence |-> Sequence]
    /\ Sequence' = (Sequence + 1) % (MaxUint64 + 1)
    /\ UNCHANGED <<Members, Config, Proposals, Votes, opts, phase>>

QuerySequence ==
    /\ phase = "created"
    /\ last' = [op |-> "QuerySequence", err |-> "OK", sequence |-> Sequence]
    /\ UNCHANGED <<stores, opts, phase>>

\* The counter has no writer in account.go: as the specification states it
\* (4.5, 5), an operation that initiates an outward action draws the next
\* number from the store.
NextSequence ==
    /\ phase = "created"
    /\ Sequence < MaxSequence
    /\ Sequence' = Sequence + 1
    /\ last' = [op |-> "NextSequence", err |-> "OK", sequence |-> Sequence]
    /\ UNCHANGED <<Members, Config, Proposals, Votes, opts, phase>>

\* ---------------------------------------------------------- UpdateConfig

RECURSIVE SumOver(_, _)
SumOver(m, keys) ==
    IF keys = {} THEN 0
    ELSE LET k == CHOOSE x \in keys : TRUE
         IN  m[k] + SumOver(m, keys \ {k})

\* The current total member weight.
RegistryWeight == SumOver(Members, DOMAIN Members)

\* Registered as an execute handler (line 190) and defined outside account.go:
\* as the specification states it (4.4), Config Validation against the current
\* total member weight, then the replacement of the single record.
UpdateConfig(cfg) ==
    /\ phase = "created"
    /\ LET err == validateConfig(cfg, RegistryWeight) IN
        /\ Config' = Committed(err, {cfg}, Config)
        /\ last' = [op |-> "UpdateConfig", req |-> [config |-> cfg],
                    err |-> err]
    /\ UNCHANGED <<Members, Sequence, Proposals, Votes, opts, phase>>

\* --------------------------------------------------------------- Propose

\* The Proposals map (line 46) has no writer in account.go: as the
\* specification states it (3), a proposal enters under the next id, Active.
Propose ==
    /\ phase = "created"
    /\ Cardinality(DOMAIN Proposals) < MaxProposals
    /\ LET id == Cardinality(DOMAIN Proposals) IN
        /\ Proposals' = MapSet(Proposals, id, [status |-> "Active"])
        /\ last' = [op |-> "Propose", err |-> "OK", proposalId |-> id]
    /\ UNCHANGED <<Members, Sequence, Config, Votes, opts, phase>>

\* ----------------------------------------------------------------- Close

TerminalStatuses == {"Passed", "Rejected", "Expired"}

\* The proposal lifecycle has no code in account.go either: as the
\* specification states it (3, 4.3), an Active proposal ends in one of the
\* terminal states.
Close(proposalId, status) ==
    /\ phase = "created"
    /\ MapHas(Proposals, proposalId)
    /\ Proposals[proposalId].status = "Active"
    /\ Proposals' = MapSet(Proposals, proposalId, [status |-> status])
    /\ last' = [op |-> "Close", err |-> "OK", proposalId |-> proposalId]
    /\ UNCHANGED <<Members, Sequence, Config, Votes, opts, phase>>

\* -------------------------------------------- validateConfig on its own

ValidateConfig(cfg, totalWeight) ==
    /\ phase = "new"
    /\ phase' = "checked"
    /\ last' = [op |-> "validateConfig",
                req |-> [config |-> cfg, totalWeight |-> totalWeight],
                err |-> validateConfig(cfg, totalWeight)]
    /\ UNCHANGED <<stores, opts>>

\* -------------------------------------------------------- specifications

InitLife ==
    /\ phase = "new"
    /\ \E pubKeys \in ListsOver(Identities), weights \in ListsOver(LifeWeights),
          cfg \in LifeConfigs : Init(pubKeys, weights, cfg)

InitWide ==
    /\ phase = "new"
    /\ \E pubKeys \in ListsOver(Identities), weights \in ListsOver(WideWeights),
          cfg \in WideConfigs : Init(pubKeys, weights, cfg)

VoteAny ==
    /\ phase = "created"
    /\ \E signer \in Signers, proposalId \in 0..MaxProposals, vote \in BOOLEAN :
            Vote(signer, proposalId, vote)

UpdateConfigAny ==
    /\ phase = "created"
    /\ \E cfg \in LifeConfigs : UpdateConfig(cfg)

ValidateConfigAny ==
    /\ phase = "new"
    /\ \E cfg \in WideConfigs, totalWeight \in 0..MaxUint64 :
            ValidateConfig(cfg, totalWeight)

Next == InitLife \/ UpdateConfigAny \/ Propose \/ VoteAny \/ QuerySequence

\* The account of an application that registers a handler for "custom".
Spec == NewAccount({{"custom"}}) /\ [][Next]_vars

CloseAny ==
    /\ phase = "created"
    /\ \E proposalId \in 0..(MaxProposals - 1), status \in TerminalStatuses :
            Close(proposalId, status)

NextClose == Next \/ CloseAny

\* The same account, with proposals that reach the end of their life.
SpecClose == NewAccount({{"custom"}}) /\ [][NextClose]_vars

SeqConfigs == ConfigsOver({1}, {1}, {1})

UpdateConfigSeq ==
    /\ phase = "created"
    /\ \E cfg \in SeqConfigs : UpdateConfig(cfg)

NextSeq ==
    InitLife \/ UpdateConfigSeq \/ Propose \/ VoteAny \/ NextSequence
        \/ QuerySequence

\* The same account, with a counter that advances.
SpecSeq == NewAccount({{"custom"}}) /\ [][NextSeq]_vars

NextInit == InitWide \/ ValidateConfigAny \/ QuerySequence

\* Initialization, of an application with and without custom handlers.
SpecInit == NewAccount({{}, {"custom"}}) /\ [][NextInit]_vars

\* ================================================================ claims

\* The arithmetic sum of a weight list, without the width of the type.
RECURSIVE TrueSum(_)
TrueSum(weights) ==
    IF weights = <<>> THEN 0 ELSE Head(weights) + TrueSum(Tail(weights))

\* Config Validation as the specification orders it.
ExpectedValidation(cfg, total) ==
    CASE cfg.threshold = 0 \/ cfg.quorum = 0 \/ cfg.votingPeriod = 0
            -> "InvalidConfig"
      [] cfg.threshold # 0 /\ cfg.quorum # 0 /\ cfg.votingPeriod # 0
         /\ cfg.threshold > total
            -> "ThresholdExceedsWeight"
      [] cfg.threshold # 0 /\ cfg.quorum # 0 /\ cfg.votingPeriod # 0
         /\ cfg.threshold <= total /\ cfg.quorum > total
            -> "QuorumExceedsWeight"
      [] OTHER -> "OK"

ValidationErrors ==
    {"InvalidConfig", "ThresholdExceedsWeight", "QuorumExceedsWeight"}

\* The step is a Vote whose voter identity the handler resolved.
VoteStepBy(voter) == last'.op = "Vote" /\ last'.voter = voter

\* The key of the Vote Ledger the step's Vote addresses.
VoteStepKey == <<last'.req.proposalId, last'.voter>>

\* ---------------------------------------------------------------- C1
\* C1: after a successful Init with the default algorithm, a Vote whose signer
\* is a member, on an existing proposal on which that member has no stored
\* vote, succeeds, and the Vote Ledger then maps (proposalId, voter) to the
\* submitted value.
C1_VoteAfterInitSucceeds ==
    [][ \A id \in Identities :
          ( /\ last'.op = "Vote"
            /\ last'.req.signer = <<"cosmos", id>>
            /\ \A c \in Config : c.algo = DefaultSigningAlgo
            /\ MapHas(Members, id)
            /\ MapHas(Proposals, last'.req.proposalId)
            /\ ~MapHas(Votes, <<last'.req.proposalId, id>>) )
          => ( /\ last'.err = "OK"
               /\ MapHas(Votes', <<last'.req.proposalId, id>>)
               /\ Votes'[<<last'.req.proposalId, id>>] = last'.req.vote )
      ]_vars

\* ---------------------------------------------------------------- C2
\* C2: after a successful Init the Configuration Store holds exactly one
\* configuration, the one passed to Init, and every later state holds
\* exactly one.
C2_OneLiveConfiguration ==
    phase = "created" =>
        /\ Cardinality(Config) = 1
        /\ (last.op = "Init" => Config = {last.req.config})

\* ---------------------------------------------------------------- C3
\* C3: while the configuration has revote = false, a Vote by a member who has
\* a stored vote on the proposal fails with AlreadyVoted and the stored vote
\* keeps its value, whatever the new value and however often it is tried.
C3_NoRevoteKeepsVote ==
    [][ \A id \in Identities :
          ( /\ VoteStepBy(id)
            /\ Config # {}
            /\ \A c \in Config : ~c.revote
            /\ MapHas(Members, id)
            /\ MapHas(Votes, VoteStepKey) )
          => ( /\ last'.err = "AlreadyVoted"
               /\ MapHas(Votes', VoteStepKey)
               /\ Votes'[VoteStepKey] = Votes[VoteStepKey]
               /\ Votes' = Votes )
      ]_vars

\* A second Vote with the other value was refused and the first value stands.
C3_Witness ==
    /\ last.op = "Vote"
    /\ last.err = "AlreadyVoted"
    /\ last.prior = {~last.req.vote}
    /\ Votes[<<last.req.proposalId, last.voter>>] = ~last.req.vote

\* ---------------------------------------------------------------- C4
\* C4: while the configuration has revote = true, a Vote by a member who has
\* a stored vote on the proposal succeeds, the stored value becomes the new
\* one, and the ledger still holds one entry under that key.
C4_RevoteOverwrites ==
    [][ \A id \in Identities :
          ( /\ VoteStepBy(id)
            /\ Config # {}
            /\ \A c \in Config : c.revote
            /\ MapHas(Members, id)
            /\ MapHas(Votes, VoteStepKey) )
          => ( /\ last'.err = "OK"
               /\ MapHas(Votes', VoteStepKey)
               /\ Votes'[VoteStepKey] = last'.req.vote
               /\ DOMAIN Votes' = DOMAIN Votes )
      ]_vars

\* A Vote replaced the voter's stored vote by the other value.
C4_Witness ==
    /\ last.op = "Vote"
    /\ last.err = "OK"
    /\ last.prior = {~last.req.vote}
    /\ Votes[<<last.req.proposalId, last.voter>>] = last.req.vote

ValidateConfigAsSpecified ==
    last.op = "validateConfig" =>
        last.err = ExpectedValidation(last.req.config, last.req.totalWeight)

\* C7 as stated: validateConfig follows the ordered rules, and Init fails with
\* the same error whenever validation of its config against sum(weights) fails.
C7_InitAlwaysValidationError ==
    /\ ValidateConfigAsSpecified
    /\ ( /\ last.op = "Init"
         /\ ExpectedValidation(last.req.config, TrueSum(last.req.weights)) # "OK" )
       => last.err = ExpectedValidation(last.req.config, TrueSum(last.req.weights))

\* C7 amended: validateConfig follows the ordered rules, and Init fails with the
\* same error whenever validation of its config against sum(weights) fails,
\* unless it failed before with InvalidInput (lists of different length) or
\* with UnsupportedAlgorithm (an algorithm other than the default).
C7_InitValidationAfterInputChecks ==
    /\ ValidateConfigAsSpecified
    /\ ( /\ last.op = "Init"
         /\ ExpectedValidation(last.req.config, TrueSum(last.req.weights)) # "OK" )
       => \/ last.err = ExpectedValidation(last.req.config,
                                           TrueSum(last.req.weights))
          \/ /\ last.err = "InvalidInput"
             /\ Len(last.req.pubKeys) # Len(last.req.weights)
          \/ /\ last.err = "UnsupportedAlgorithm"
             /\ Len(last.req.pubKeys) = Len(last.req.weights)
             /\ last.req.config.algo # DefaultSigningAlgo

\* Init reported QuorumExceedsWeight for a threshold within the total.
C7_Witness ==
    /\ last.op = "Init"
    /\ last.err = "QuorumExceedsWeight"
    /\ last.req.config.threshold <= TrueSum(last.req.weights)
    /\ last.req.config.quorum > TrueSum(last.req.weights)

\* ---------------------------------------------------------------- C8
\* C8: Init fails with InvalidInput whenever the identity list and the weight
\* list differ in length, and then writes nothing to the Member Registry or
\* the Configuration Store.
C8_LengthMismatchRejected ==
    [][ ( /\ last'.op = "Init"
          /\ Len(last'.req.pubKeys) # Len(last'.req.weights) )
        => ( /\ last'.err = "InvalidInput"
             /\ last'.staged = Members
             /\ Members' = Members
             /\ Config' = Config )
      ]_vars

\* Init refused a weight list longer than the (non-empty) identity list.
C8_Witness ==
    /\ last.op = "Init"
    /\ last.err = "InvalidInput"
    /\ 0 < Len(last.req.pubKeys)
    /\ Len(last.req.pubKeys) < Len(last.req.weights)
    /\ Members = EmptyMap

\* ---------------------------------------------------------------- C9
\* The weight the request gives an identity: that of its last occurrence.
WeightIn(req, id) ==
    LET at == {i \in 1..Len(req.pubKeys) : req.pubKeys[i] = id}
    IN  req.weights[CHOOSE i \in at : \A j \in at : j <= i]

\* C9: for lists of equal length and a config with a supported algorithm,
\* positive threshold, quorum and voting period, threshold <= sum(weights) and
\* quorum <= sum(weights), Init succeeds, the Member Registry maps each
\* identity to its weight, and QuerySequence then returns 0.
C9_ValidInitSucceeds ==
    /\ ( /\ last.op = "Init"
         /\ Len(last.req.pubKeys) = Len(last.req.weights)
         /\ last.req.config.algo = DefaultSigningAlgo
         /\ last.req.config.threshold > 0
         /\ last.req.config.quorum > 0
         /\ last.req.config.votingPeriod > 0
         /\ last.req.config.threshold <= TrueSum(last.req.weights)
         /\ last.req.config.quorum <= TrueSum(last.req.weights) )
       => ( /\ last.err = "OK"
            /\ \A i \in 1..Len(last.req.pubKeys) :
                  /\ MapHas(Members, last.req.pubKeys[i])
                  /\ Members[last.req.pubKeys[i]]
                        = WeightIn(last.req, last.req.pubKeys[i]) )
    /\ (last.op = "QuerySequence" => last.sequence = 0)

RECURSIVE RegistryTotal(_, _)
RegistryTotal(members, ids) ==
    IF ids = {} THEN 0
    ELSE LET id == CHOOSE x \in ids : TRUE
         IN  (IF id \in DOMAIN members THEN members[id] ELSE 0)
                + RegistryTotal(members, ids \ {id})

\* The configuration respects the Member Registry's total weight.
WithinRegistry(cfg) ==
    /\ cfg.threshold > 0
    /\ cfg.quorum > 0
    /\ cfg.votingPeriod > 0
    /\ cfg.threshold <= RegistryTotal(Members, Identities)
    /\ cfg.quorum <= RegistryTotal(Members, Identities)

\* C11: in every state after a successful Init, whatever the Init input
\* (identity lists that repeat an identity included), the live configuration,
\* the one Init accepted and any that is stored, has threshold and quorum <= the
\* total weight of the Member Registry and threshold, quorum and voting period
\* strictly positive.
C11_ConfigWithinRegistryWeight ==
    phase = "created" =>
        /\ \A c \in Config : WithinRegistry(c)
        /\ (last.op = "Init" => WithinRegistry(last.req.config))

\* ---------------------------------------------------------------- C12
\* C12: Init accepts a configuration's algorithm name if and only if it is the
\* default algorithm or a key of the handler registry supplied at construction
\* (Options.CustomAlgorithms); otherwise it fails with UnsupportedAlgorithm and
\* writes no state.
C12_AlgorithmAcceptedIffRegistered ==
    [][ ( /\ last'.op = "Init"
          /\ Len(last'.req.pubKeys) = Len(last'.req.weights) )
        => IF last'.req.config.algo \in {DefaultSigningAlgo} \cup opts
           THEN last'.err # "UnsupportedAlgorithm"
           ELSE /\ last'.err = "UnsupportedAlgorithm"
                /\ last'.staged = Members
                /\ Members' = Members
                /\ Config' = Config
      ]_vars

\* ---------------------------------------------------------------- C13
\* C13: a Vote on an account whose configured algorithm is not the default and
\* has no registered handler returns the failure UnknownAlgorithmHandler; it
\* does not abort, and it records no vote.
C13_UnknownHandlerIsTypedFailure ==
    [][ ( /\ last'.op = "Vote"
          /\ Config # {}
          /\ \A c \in Config :
                c.algo # DefaultSigningAlgo /\ c.algo \notin customAlgos )
        => ( /\ last'.err = "UnknownAlgorithmHandler"
             /\ Votes' = Votes )
      ]_vars

\* ---------------------------------------------------------------- C20
\* C20: the total weight Init validates the configuration against is the
\* arithmetic sum of the submitted weights, free of any wrap of the unsigned
\* type: Init accepts and rejects a threshold and a quorum exactly as
\* validation against that sum does.
C20_TotalIsTrueSum ==
    ( /\ last.op = "Init"
      /\ Len(last.req.pubKeys) = Len(last.req.weights)
      /\ last.req.config.algo = DefaultSigningAlgo )
    => last.err = ExpectedValidation(last.req.config, TrueSum(last.req.weights))

\* ---------------------------------------------------------------- C14
\* C14: a Vote by a member on a proposal that is Passed, Rejected or Expired
\* fails with ProposalClosed and leaves the Vote Ledger exactly as it was.
C14_ClosedProposalRejectsVote ==
    [][ ( /\ last'.op = "Vote"
          /\ last'.voter \in DOMAIN Members
          /\ MapHas(Proposals, last'.req.proposalId)
          /\ Proposals[last'.req.proposalId].status \in TerminalStatuses )
        => ( /\ last'.err = "ProposalClosed"
             /\ Votes' = Votes )
      ]_vars

\* ---------------------------------------------------------------- C15
ApproveWeight(proposalId) ==
    SumOver(Members, {id \in DOMAIN Members :
                        /\ MapHas(Votes, <<proposalId, id>>)
                        /\ Votes[<<proposalId, id>>]})

VotedWeight(proposalId) ==
    SumOver(Members, {id \in DOMAIN Members : MapHas(Votes, <<proposalId, id>>)})

\* C15: after a successful Vote, the proposal voted on is Passed when the
\* weight of its approving voters has reached the threshold and the weight of
\* all its voters has reached the quorum.
C15_TallyPassesProposal ==
    ( /\ last.op = "Vote"
      /\ last.err = "OK" )
    => \A c \in Config :
          ( /\ ApproveWeight(last.req.proposalId) >= c.threshold
            /\ VotedWeight(last.req.proposalId) >= c.quorum )
          => Proposals[last.req.proposalId].status = "Passed"

C17_QuerySequenceReadsOnly ==
    [][ last'.op = "QuerySequence"
        => /\ last'.err = "OK"
           /\ last'.sequence = Sequence
           /\ Sequence' = Sequence
           /\ Members' = Members
           /\ Config' = Config
           /\ Proposals' = Proposals
           /\ Votes' = Votes
           /\ (last.op = "QuerySequence" => last'.sequence = last.sequence)
      ]_vars

\* A query of a counter that has advanced, on an account with votes recorded.
C17_Witness ==
    /\ last.op = "QuerySequence"
    /\ last.sequence = Sequence
    /\ Sequence > 0
    /\ Votes # EmptyMap

\* ---------------------------------------------------------------- C18
\* C18: a Vote, successful or failed, leaves the Sequence counter, the Member
\* Registry, the Configuration and every Vote Ledger entry other than the one
\* under (proposalId, resolved voter) unchanged; a failed Vote leaves that
\* entry unchanged as well.
C18_VoteFrame ==
    [][ last'.op = "Vote"
        => /\ Sequence' = Sequence
           /\ Members' = Members
           /\ Config' = Config
           /\ \A k \in (DOMAIN Votes \cup DOMAIN Votes') \ {VoteStepKey} :
                 /\ k \in DOMAIN Votes
                 /\ k \in DOMAIN Votes'
                 /\ Votes'[k] = Votes[k]
           /\ last'.err # "OK" => Votes' = Votes
      ]_vars

\* A successful Vote beside another voter's entry, after the counter moved.
C18_Witness ==
    /\ last.op = "Vote"
    /\ last.err = "OK"
    /\ Sequence > 0
    /\ \E k \in DOMAIN Votes : k # <<last.req.proposalId, last.voter>>

\* A refused second vote whose value differs from the stored one.
C18_WitnessFailed ==
    /\ last.op = "Vote"
    /\ last.err = "AlreadyVoted"
    /\ last.prior # {last.req.vote}

\* ---------------------------------------------------------------- C19
\* C19: in every reachable state each Vote Ledger entry is keyed by a proposal
\* id present in the Proposal Ledger and a voter identity present in the
\* Member Registry.
C19_VotesKeyedByProposalAndMember ==
    \A k \in DOMAIN Votes :
        /\ k[1] \in DOMAIN Proposals
        /\ k[2] \in DOMAIN Members

\* A ledger with an entry, right after a non-member's vote was turned away.
C19_Witness ==
    /\ Votes # EmptyMap
    /\ last.op = "Vote"
    /\ last.err = "NotAMember"
    /\ last.voter \notin DOMAIN Members

====
